---- MODULE Spec2Model ----
(***************************************************************************)
(* pack_helm_images.py: render a Helm chart (helm template), extract the   *)
(* image references (yq eval), docker pull each one and docker save them   *)
(* into one archive.  Text is modelled as a sequence of one-character      *)
(* strings, files as their text, every external tool invocation as one     *)
(* blocking step whose exit code and output the environment chooses.       *)
(***************************************************************************)
EXTENDS Integers, Sequences, FiniteSets

VARIABLES
    pc,            \* position of main: START, RENDERED, EXTRACTED, PULLED, SAVED, DONE, FAILED
    exitCode,      \* exit status of the process once pc is DONE or FAILED
    idx,           \* EXTRACTED: 0 before the `if not images` test, then the pull loop's index
    images,        \* the list returned by extract_images_with_yq
    calls,         \* external tool invocations made so far in this run, in order
    manifestFile,  \* text of the manifest file
    imagesFile,    \* text of the image list file
    tarFile,       \* content of the archive file
    valuesFile,    \* args.values ("" when the option is absent)
    tarPath,       \* args.output
    helmOut,       \* what helm wrote to its stdout in this run
    yqLines,       \* the lines yq printed in this run
    prior,         \* the image list and archive files as they were when the run started
    runNo,         \* 1 in the first run, 2 in a re-run with the same inputs
    first          \* what the first run's tools returned and what it left in the files

vars == <<pc, exitCode, idx, images, calls, manifestFile, imagesFile, tarFile,
          valuesFile, tarPath, helmOut, yqLines, prior, runNo, first>>

\* What no step of a run changes.
fixed == <<valuesFile, tarPath, prior, runNo, first>>

----------------------------------------------------------------------------
(* Bounds of the model *)

MaxLines == 3

MaxImages == 3

MaxRerunLines == 2

----------------------------------------------------------------------------
(* Text *)

NL == "\n"

Whitespace == {" ", NL}

\* Code point of a character: Python compares str by code point.
Ord(c) ==
    CASE c = NL  -> 10
      [] c = " " -> 32
      [] c = "1" -> 49
      [] c = ":" -> 58
      [] c = "A" -> 65
      [] c = "a" -> 97
      [] c = "b" -> 98
      [] c = "k" -> 107
      [] c = "o" -> 111
      [] OTHER   -> 127

MinOf(m, n) == IF m <= n THEN m ELSE n

\* s < t for two str values: the first differing character decides, a proper
\* prefix is smaller.
StrLess(s, t) ==
    \E i \in 1..(MinOf(Len(s), Len(t)) + 1) :
        /\ \A j \in 1..(i - 1) : s[j] = t[j]
        /\ \/ i > Len(s) /\ i <= Len(t)
           \/ i <= Len(s) /\ i <= Len(t) /\ Ord(s[i]) < Ord(t[i])

RECURSIVE LStrip(_)
LStrip(s) ==
    IF s # <<>> /\ Head(s) \in Whitespace THEN LStrip(Tail(s)) ELSE s

RECURSIVE RStrip(_)
RStrip(s) ==
    IF s # <<>> /\ s[Len(s)] \in Whitespace
    THEN RStrip(SubSeq(s, 1, Len(s) - 1))
    ELSE s

\* str.strip()
Strip(s) == RStrip(LStrip(s))

\* str.splitlines(): cut at every newline, no empty last line after a final newline.
RECURSIVE SplitLines(_)
SplitLines(s) ==
    IF s = <<>> THEN <<>>
    ELSE IF \E i \in 1..Len(s) : s[i] = NL
         THEN LET i == CHOOSE k \in 1..Len(s) :
                           s[k] = NL /\ \A j \in 1..(k - 1) : s[j] # NL
              IN  <<SubSeq(s, 1, i - 1)>> \o SplitLines(SubSeq(s, i + 1, Len(s)))
         ELSE <<s>>

\* [line.strip() for line in output.splitlines() if line.strip()]
RECURSIVE StrippedNonBlank(_)
StrippedNonBlank(ls) ==
    IF ls = <<>> THEN <<>>
    ELSE LET x == Strip(Head(ls))
         IN  (IF x # <<>> THEN <<x>> ELSE <<>>) \o StrippedNonBlank(Tail(ls))

ToSet(q) == {q[i] : i \in DOMAIN q}

RECURSIVE SortedOf(_)
SortedOf(S) ==
    IF S = {} THEN <<>>
    ELSE LET m == CHOOSE x \in S : \A y \in S : x = y \/ StrLess(x, y)
         IN  <<m>> \o SortedOf(S \ {m})

\* A variant that removes duplicates but keeps the order of first occurrence.
RECURSIVE DedupKeepOrder(_)
DedupKeepOrder(ls) ==
    IF ls = <<>> THEN <<>>
    ELSE LET r == DedupKeepOrder(SubSeq(ls, 1, Len(ls) - 1))
             x == ls[Len(ls)]
         IN  IF x \in ToSet(r) THEN r ELSE Append(r, x)

\* sorted(set(lines))
UniqueSorted(ls) == SortedOf(ToSet(ls))

\* "\n".join(q)
RECURSIVE JoinNL(_)
JoinNL(q) ==
    IF q = <<>> THEN <<>>
    ELSE IF Len(q) = 1 THEN q[1]
    ELSE q[1] \o <<NL>> \o JoinNL(Tail(q))

\* A variant without the final newline.
FileTextNoFinalNewline(q) == JoinNL(q)

\* "\n".join(unique_sorted) + ("\n" if unique_sorted else "")
FileText(q) == JoinNL(q) \o (IF q # <<>> THEN <<NL>> ELSE <<>>)

----------------------------------------------------------------------------
(* Environment: arguments, prior file contents, what the tools return *)

DEFAULT_MANIFEST == "rendered.yaml"

DEFAULT_IMAGES_TAR == "images.tar"

ChartPath == "chart"

ValuesFiles == {"", "values.yaml"}

OutputPaths == {DEFAULT_IMAGES_TAR, "out.tar"}

\* Command lines tried: every option left at its default, or -f and -o given.
Arguments ==
    {a \in ValuesFiles \X OutputPaths : (a[1] = "") <=> (a[2] = DEFAULT_IMAGES_TAR)}

\* Exit codes an external tool may end with when it fails.
FailCodes == {1, 2}

BoundedSeq(S, n) == UNION {[1..k -> S] : k \in 0..n}

\* Lines yq may print for one match.
RawLines ==
    { <<>>, <<" ">>, <<"a", ":", "1">>, <<" ", "a", ":", "1">>,
      <<"A", ":", "1", " ">>, <<"b", ":", "1">> }

\* yq prints every match followed by a newline.
RECURSIVE YqStdout(_)
YqStdout(ls) ==
    IF ls = <<>> THEN <<>> ELSE Head(ls) \o <<NL>> \o YqStdout(Tail(ls))

\* Manifests helm may print.
HelmStdouts == { <<"k">>, <<"k", NL, "k">> }

Prefixes(s) == {SubSeq(s, 1, n) : n \in 0..Len(s)}

\* What a file may hold before the run.
PriorContents == { <<>>, <<"o", NL>> }

Invocation(prog, path, opt, imgs, rc) ==
    [prog |-> prog, path |-> path, opt |-> opt, imgs |-> imgs, rc |-> rc]

NoFirst == [helmRc |-> 0, helmOut |-> <<>>, yqRc |-> 0, yqLines |-> <<>>,
            manifest |-> <<>>, imagesFile |-> <<>>]

Init ==
    /\ pc = "START"
    /\ exitCode = 0
    /\ idx = 0
    /\ images = <<>>
    /\ calls = <<>>
    /\ manifestFile \in PriorContents
    /\ imagesFile \in PriorContents
    /\ tarFile \in PriorContents
    /\ \E a \in Arguments : valuesFile = a[1] /\ tarPath = a[2]
    /\ helmOut = <<>>
    /\ yqLines = <<>>
    /\ prior = [imagesFile |-> imagesFile, tarFile |-> tarFile]
    /\ runNo = 1
    /\ first = NoFirst

----------------------------------------------------------------------------
(* The program *)

\* Path.open("w") / Path.write_text: a variant that appends instead.
AppendFile(old, text) == old \o text

\* Path.open("w") / Path.write_text: the file's text is replaced.
WriteFile(old, text) == text

\* subprocess.run(check=True): a variant that ignores the exit code.
Unchecked(rc) == FALSE

\* subprocess.run(check=True) raises CalledProcessError on a non-zero exit code.
Raises(rc) == rc # 0

\* run() lets CalledProcessError escape main: the interpreter prints the
\* traceback and the process ends with status 1, whatever the tool returned.
RunFailExit(rc) == 1

\* except CalledProcessError as e: sys.exit(e.returncode)
YqFailExit(rc) == rc

\* check_output: a variant that ignores yq's exit code.
YqNeverFails(rc) == FALSE

\* check_output raises CalledProcessError when yq's exit code is not zero.
YqFails(rc) == rc # 0

\* A variant of the pull loop that walks the list from its end.
PullTargetReversed(imgs, i) == imgs[Len(imgs) + 1 - i]

\* `for img in images`: the image of the i-th iteration.
PullTarget(imgs, i) == imgs[i]

\* `not images`: a variant that never sees an empty list.
NeverEmpty(imgs) == FALSE

\* `not images`
NoImages(imgs) == imgs = <<>>

\* A variant that leaves the first image out of the docker save command.
SaveArgsDropFirst(imgs) == Tail(imgs)

\* ["docker", "save", "-o", str(tar_path)] + images
SaveArgs(imgs) == imgs

\* What docker save writes for the images it is given (opaque to the program).
Archive(imgs) == <<"#">> \o JoinNL(imgs)

\* Exit code and stdout of helm: any in the first run, the first run's again
\* in a re-run.
HelmResults ==
    IF runNo = 1
    THEN {<<0, o>> : o \in HelmStdouts}
         \cup {<<rc, p>> : rc \in FailCodes, p \in UNION {Prefixes(o) : o \in HelmStdouts}}
    ELSE {<<first.helmRc, first.helmOut>>}

Permutations(q) ==
    {[i \in 1..Len(q) |-> q[f[i]]] :
        f \in {g \in [1..Len(q) -> 1..Len(q)] : \A i, j \in 1..Len(q) : g[i] = g[j] => i = j}}

\* Exit code and printed lines of yq: any in the first run; in a re-run the
\* same exit code and the same lines in any order.
YqResults ==
    IF runNo = 1
    THEN {<<0, ls>> : ls \in BoundedSeq(RawLines, MaxLines)}
         \cup {<<rc, <<>>>> : rc \in FailCodes}
    ELSE {<<first.yqRc, ls>> : ls \in Permutations(first.yqLines)}

\* render_chart: the manifest is opened for writing and helm's stdout goes to it.
RenderChart ==
    /\ pc = "START"
    /\ \E res \in HelmResults :
        /\ calls' = Append(calls,
                Invocation("helm template", ChartPath, valuesFile, <<>>, res[1]))
        /\ manifestFile' = WriteFile(manifestFile, res[2])
        /\ helmOut' = res[2]
        /\ IF Raises(res[1])
           THEN pc' = "FAILED" /\ exitCode' = RunFailExit(res[1])
           ELSE pc' = "RENDERED" /\ exitCode' = exitCode
    /\ UNCHANGED <<idx, images, imagesFile, tarFile, yqLines, fixed>>

\* extract_images_with_yq
ExtractImagesWithYq ==
    /\ pc = "RENDERED"
    /\ \E res \in YqResults :
        /\ calls' = Append(calls,
                Invocation("yq eval", DEFAULT_MANIFEST, "", <<>>, res[1]))
        /\ IF YqFails(res[1])
           THEN /\ pc' = "FAILED"
                /\ exitCode' = YqFailExit(res[1])
                /\ UNCHANGED <<images, imagesFile, yqLines>>
           ELSE LET output == YqStdout(res[2])
                    lines == StrippedNonBlank(SplitLines(output))
                    unique_sorted == UniqueSorted(lines)
                IN  /\ imagesFile' = WriteFile(imagesFile, FileText(unique_sorted))
                    /\ images' = unique_sorted
                    /\ yqLines' = res[2]
                    /\ pc' = "EXTRACTED"
                    /\ exitCode' = exitCode
    /\ UNCHANGED <<idx, manifestFile, tarFile, helmOut, fixed>>

\* main: if not images: sys.exit(1); otherwise the pull loop starts.
CheckImages ==
    /\ pc = "EXTRACTED"
    /\ idx = 0
    /\ IF NoImages(images)
       THEN pc' = "FAILED" /\ exitCode' = 1 /\ idx' = idx
       ELSE pc' = pc /\ exitCode' = exitCode /\ idx' = 1
    /\ UNCHANGED <<images, calls, manifestFile, imagesFile, tarFile, helmOut,
                   yqLines, fixed>>

\* A variant of the loop that goes on to the next image when a pull fails.
PullImageKeepGoing ==
    /\ pc = "EXTRACTED"
    /\ idx \in 1..Len(images)
    /\ \E rc \in {0} \cup FailCodes :
        calls' = Append(calls,
                Invocation("docker pull", "", "", <<PullTarget(images, idx)>>, rc))
    /\ idx' = idx + 1
    /\ UNCHANGED <<pc, exitCode, images, manifestFile, imagesFile, tarFile, helmOut,
                   yqLines, fixed>>

\* pull_images: one iteration of `for img in images`.
PullImage ==
    /\ pc = "EXTRACTED"
    /\ idx \in 1..Len(images)
    /\ \E rc \in {0} \cup FailCodes :
        /\ calls' = Append(calls,
                Invocation("docker pull", "", "", <<PullTarget(images, idx)>>, rc))
        /\ IF Raises(rc)
           THEN pc' = "FAILED" /\ exitCode' = RunFailExit(rc) /\ idx' = idx
           ELSE pc' = pc /\ exitCode' = exitCode /\ idx' = idx + 1
    /\ UNCHANGED <<images, manifestFile, imagesFile, tarFile, helmOut,
                   yqLines, fixed>>

\* pull_images: the loop is exhausted and the function returns.
PullReturn ==
    /\ pc = "EXTRACTED"
    /\ idx > Len(images)
    /\ pc' = "PULLED"
    /\ UNCHANGED <<exitCode, idx, images, calls, manifestFile, imagesFile, tarFile,
                   helmOut, yqLines, fixed>>

\* save_images
SaveImages ==
    /\ pc = "PULLED"
    /\ IF NoImages(images)
       THEN /\ pc' = "SAVED"
            /\ UNCHANGED <<exitCode, calls, tarFile>>
       ELSE \E rc \in {0} \cup FailCodes :
            /\ calls' = Append(calls,
                    Invocation("docker save", tarPath, "", SaveArgs(images), rc))
            /\ IF Raises(rc)
               THEN /\ pc' = "FAILED"
                    /\ exitCode' = RunFailExit(rc)
                    /\ tarFile' \in {tarFile, <<>>}
               ELSE /\ pc' = "SAVED"
                    /\ exitCode' = exitCode
                    /\ tarFile' = Archive(SaveArgs(images))
    /\ UNCHANGED <<idx, images, manifestFile, imagesFile, helmOut, yqLines,
                   fixed>>

\* main prints "Done." and returns: exit status 0.
Done ==
    /\ pc = "SAVED"
    /\ pc' = "DONE"
    /\ exitCode' = 0
    /\ UNCHANGED <<idx, images, calls, manifestFile, imagesFile, tarFile, helmOut,
                   yqLines, fixed>>

Next ==
    \/ RenderChart
    \/ ExtractImagesWithYq
    \/ CheckImages
    \/ PullImage
    \/ PullReturn
    \/ SaveImages
    \/ Done

Spec == Init /\ [][Next]_vars

----------------------------------------------------------------------------
(* A second run with the same arguments, in which helm and yq answer as they
   did in the first (yq's lines in any order).  Between the two runs the
   manifest and the image list are left alone or replaced by other text. *)

Rerun ==
    /\ pc \in {"DONE", "FAILED"}
    /\ runNo = 1
    /\ Len(yqLines) <= MaxRerunLines
    /\ runNo' = 2
    /\ first' = [helmRc |-> calls[1].rc,
                 helmOut |-> helmOut,
                 yqRc |-> IF Len(calls) >= 2 THEN calls[2].rc ELSE 0,
                 yqLines |-> yqLines,
                 manifest |-> manifestFile,
                 imagesFile |-> imagesFile]
    /\ pc' = "START"
    /\ exitCode' = 0
    /\ idx' = 0
    /\ images' = <<>>
    /\ calls' = <<>>
    /\ helmOut' = <<>>
    /\ yqLines' = <<>>
    /\ \/ UNCHANGED <<manifestFile, imagesFile>>
       \/ \E c \in PriorContents : manifestFile' = c /\ imagesFile' = c
    /\ prior' = [imagesFile |-> imagesFile', tarFile |-> tarFile]
    /\ UNCHANGED <<tarFile, valuesFile, tarPath>>

NextRerun ==
    \/ Next
    \/ Rerun

SpecRerun == Init /\ [][NextRerun]_vars

----------------------------------------------------------------------------
(* save_images called on its own, with any list of images *)

ImageRefs == { <<"a", ":", "1">>, <<"A", ":", "1">>, <<"b", ":", "1">> }

InitSave ==
    /\ pc = "PULLED"
    /\ exitCode = 0
    /\ images \in BoundedSeq(ImageRefs, MaxImages)
    /\ idx = Len(images) + 1
    /\ calls = <<>>
    /\ manifestFile = <<>>
    /\ imagesFile = <<>>
    /\ tarFile \in PriorContents
    /\ valuesFile = ""
    /\ tarPath \in OutputPaths
    /\ helmOut = <<>>
    /\ yqLines = <<>>
    /\ prior = [imagesFile |-> imagesFile, tarFile |-> tarFile]
    /\ runNo = 1
    /\ first = NoFirst

NextSave == SaveImages

SpecSave == InitSave /\ [][NextSave]_vars

----------------------------------------------------------------------------
(* Vocabulary of the properties *)

a1 == <<"a", ":", "1">>

A1 == <<"A", ":", "1">>

b1 == <<"b", ":", "1">>

Pulls(cs) == SelectSeq(cs, LAMBDA c : c.prog = "docker pull")

Saves(cs) == SelectSeq(cs, LAMBDA c : c.prog = "docker save")

AllSucceeded(cs) == \A i \in DOMAIN cs : cs[i].rc = 0

\* helm and yq have both been run in this run and both ended with exit code 0.
YqOk ==
    /\ Len(calls) >= 2
    /\ calls[1].prog = "helm template" /\ calls[1].rc = 0
    /\ calls[2].prog = "yq eval" /\ calls[2].rc = 0

\* yq has been run in this run and ended with a non-zero exit code.
YqFailed ==
    /\ Len(calls) >= 2
    /\ calls[2].prog = "yq eval" /\ calls[2].rc # 0

IsBlank(l) == \A i \in DOMAIN l : l[i] \in Whitespace

\* A non-blank line from its first to its last non-whitespace character.
Core(l) ==
    LET I == {i \in DOMAIN l : l[i] \notin Whitespace}
        lo == CHOOSE i \in I : \A j \in I : i <= j
        hi == CHOOSE i \in I : \A j \in I : j <= i
    IN  SubSeq(l, lo, hi)

\* The distinct image references among the lines yq printed.
Distinct(ls) == {Core(ls[i]) : i \in {j \in DOMAIN ls : ~IsBlank(ls[j])}}

\* Every entry followed by one newline.
RECURSIVE Terminated(_)
Terminated(q) ==
    IF q = <<>> THEN <<>>
    ELSE Terminated(SubSeq(q, 1, Len(q) - 1)) \o q[Len(q)] \o <<NL>>

----------------------------------------------------------------------------
(* C1 (does not hold of the code): whenever an external tool of the pipeline
   (helm template, yq eval, a docker pull, docker save) ends with a non-zero
   exit code n, the process ends in failure with exit code n. *)
C1_ExitCodeForwarded ==
    \A i \in DOMAIN calls :
        calls[i].rc # 0 => pc = "FAILED" /\ exitCode = calls[i].rc

(* C2: when helm and yq both succeed and yq printed no non-blank line, the
   run makes no docker pull and no docker save invocation and, once main has
   tested the list, has ended with exit code 1. *)
C2_EmptyExtractionExits1 ==
    (YqOk /\ \A i \in DOMAIN yqLines : IsBlank(yqLines[i])) =>
        /\ Len(calls) = 2
        /\ \/ pc = "EXTRACTED" /\ idx = 0
           \/ pc = "FAILED" /\ exitCode = 1

C2_Witness ==
    /\ YqOk
    /\ yqLines = << <<" ">>, <<>> >>
    /\ pc = "FAILED"
    /\ exitCode = 1

(* C3: a docker pull that fails is the pull of the image at its index, it is
   the last tool invocation of the run (no later pull, no docker save), and
   the run has ended in failure, so it never reaches DONE. *)
C3_FirstPullFailureAborts ==
    \A i \in DOMAIN calls :
        (calls[i].prog = "docker pull" /\ calls[i].rc # 0) =>
            /\ i = Len(calls)
            /\ calls[i].imgs = <<images[i - 2]>>
            /\ Saves(calls) = <<>>
            /\ pc = "FAILED"
            /\ exitCode # 0

C3_Witness ==
    /\ Len(images) = 3
    /\ Len(calls) = 4
    /\ calls[3].prog = "docker pull" /\ calls[3].rc = 0
    /\ calls[4].prog = "docker pull" /\ calls[4].rc # 0
    /\ pc = "FAILED"

(* C4: once yq has succeeded, the returned list holds exactly the distinct
   non-blank lines yq printed, stripped of surrounding whitespace (compared
   character by character, so case matters), none of them empty, in strictly
   ascending order - hence each exactly once. *)
C4_ExtractedSortedUnique ==
    YqOk =>
        /\ ToSet(images) = Distinct(yqLines)
        /\ \A i \in DOMAIN images : images[i] # <<>>
        /\ \A i, j \in DOMAIN images : i < j => StrLess(images[i], images[j])

C4_Witness ==
    /\ YqOk
    /\ yqLines = << <<" ", "a", ":", "1">>, <<"A", ":", "1", " ">>, a1 >>
    /\ images = <<A1, a1>>

(* C5: once yq has succeeded, the image list file holds the returned list
   with every entry followed by one newline, and nothing at all when the list
   is empty - also in the run that then exits with 1. *)
C5_ImagesFileText ==
    YqOk =>
        /\ imagesFile = Terminated(images)
        /\ images = <<>> => imagesFile = <<>>

C5_Witness ==
    /\ YqOk
    /\ yqLines = <<b1, a1, a1>>
    /\ images = <<a1, b1>>
    /\ imagesFile = <<"a", ":", "1", NL, "b", ":", "1", NL>>

\* The stage changes a step may make, and what a step has to respect.
StageEdges ==
    { <<"START", "RENDERED">>, <<"RENDERED", "EXTRACTED">>,
      <<"EXTRACTED", "EXTRACTED">>, <<"EXTRACTED", "PULLED">>,
      <<"PULLED", "SAVED">>, <<"SAVED", "DONE">> }
    \cup {<<s, "FAILED">> : s \in {"START", "RENDERED", "EXTRACTED", "PULLED", "SAVED"}}

StageStep ==
    /\ <<pc, pc'>> \in StageEdges
    /\ calls' # calls =>
        /\ Len(calls') = Len(calls) + 1
        /\ SubSeq(calls', 1, Len(calls)) = calls
        /\ AllSucceeded(calls)
        /\ LET c == calls'[Len(calls')]
           IN  /\ c.prog = "helm template" => pc = "START"
               /\ c.prog = "yq eval" => pc = "RENDERED"
               /\ c.prog = "docker pull" => pc = "EXTRACTED" /\ images # <<>>
               /\ c.prog = "docker save" =>
                      pc = "PULLED" /\ Len(Pulls(calls)) = Len(images)
               /\ c.rc # 0 => pc' = "FAILED"
    /\ pc' \in {"RENDERED", "EXTRACTED", "PULLED", "SAVED", "DONE"} =>
        AllSucceeded(calls')
    /\ pc' = "RENDERED" => calls'[Len(calls')].prog = "helm template"
    /\ (pc = "RENDERED" /\ pc' = "EXTRACTED") => calls'[Len(calls')].prog = "yq eval"
    /\ pc' = "PULLED" => images # <<>> /\ Len(Pulls(calls')) = Len(images)
    /\ pc' = "SAVED" => Len(Saves(calls')) = 1
    /\ pc' = "DONE" => exitCode' = 0

(* C6: every step of a run moves along START -> RENDERED -> EXTRACTED ->
   PULLED -> SAVED -> DONE or to FAILED; no step leaves DONE or FAILED; a tool
   is invoked only from its own stage and only when every earlier invocation
   succeeded (helm from START, yq from RENDERED, a pull from EXTRACTED with a
   non-empty list, save from PULLED after one successful pull per image); a
   stage is entered only when the tool of the stage before succeeded. *)
C6_StageOrder == [][StageStep]_vars

C6_Witness ==
    /\ pc = "DONE"
    /\ Len(images) = 3
    /\ Len(calls) = 6

(* C7: after save_images has run on a list of images: with the empty list it
   made no invocation and returned normally; with a non-empty list it made
   exactly one invocation, docker save, whose arguments are the output path
   and the images of the list, all of them, in the list's order. *)
C7_SaveInvocation ==
    /\ pc = "PULLED" => calls = <<>>
    /\ pc # "PULLED" =>
        IF images = <<>>
        THEN calls = <<>> /\ pc = "SAVED"
        ELSE /\ Len(calls) = 1
             /\ calls[1].prog = "docker save"
             /\ calls[1].path = tarPath
             /\ calls[1].imgs = images
             /\ pc = "SAVED" <=> calls[1].rc = 0

C7_Witness ==
    /\ pc = "SAVED"
    /\ images = <<>>
    /\ calls = <<>>
    /\ tarFile = <<"o", NL>>

(* C8: as long as no docker pull has failed, the pulls made so far are the
   pulls of the first images of the extracted list, one each and in the list's
   order, which is strictly ascending; once pull_images has returned there has
   been one pull for every image, and the images pulled are the distinct
   image references yq printed. *)
C8_PullsFollowList ==
    LET p == Pulls(calls)
    IN  AllSucceeded(p) =>
            /\ Len(p) <= Len(images)
            /\ \A i \in DOMAIN p : p[i].imgs = <<images[i]>>
            /\ \A i, j \in DOMAIN p : i < j => StrLess(p[i].imgs[1], p[j].imgs[1])
            /\ (pc \in {"PULLED", "SAVED", "DONE"} \/ Saves(calls) # <<>>) =>
                /\ Len(p) = Len(images)
                /\ {p[i].imgs[1] : i \in DOMAIN p} = Distinct(yqLines)

C8_Witness ==
    /\ pc = "PULLED"
    /\ yqLines = <<b1, <<"A", ":", "1", " ">>, a1>>
    /\ Len(Pulls(calls)) = 3

(* C9: in a second run with the same arguments in which helm and yq return
   what they returned in the first (yq's lines in any order), the manifest is,
   once helm has run, the text the first run left in it, and the image list
   is, once yq has succeeded, the text the first run left in it - whatever the
   two files held when the second run started. *)
C9_RerunIdentical ==
    runNo = 2 =>
        /\ calls # <<>> => manifestFile = first.manifest
        /\ YqOk => imagesFile = first.imagesFile

C9_Witness ==
    /\ runNo = 2
    /\ pc = "DONE"
    /\ first.yqLines = <<b1, a1>>
    /\ yqLines = <<a1, b1>>
    /\ prior.imagesFile = <<"o", NL>>
    /\ imagesFile = first.imagesFile

(* C10: when yq ends with a non-zero exit code, the run has ended in failure
   with yq as its last tool invocation (no docker pull, no docker save), the
   image list file and the archive file are as they were when the run
   started, and the manifest file holds what helm printed. *)
C10_YqFailureFrame ==
    YqFailed =>
        /\ pc = "FAILED"
        /\ Len(calls) = 2
        /\ imagesFile = prior.imagesFile
        /\ tarFile = prior.tarFile
        /\ manifestFile = helmOut

C10_Witness ==
    /\ YqFailed
    /\ pc = "FAILED"
    /\ prior.imagesFile = <<"o", NL>>
    /\ imagesFile = <<"o", NL>>
    /\ tarFile = <<"o", NL>>
    /\ manifestFile = <<"k", NL, "k">>

====
